---- MODULE Spec2Model ----
(***************************************************************************)
(* Model of the explosion profiler: the script example_explode_analysis.py *)
(* (prog = "example") and the pipeline profile_exploded.py                 *)
(* (prog = "profile"), plus the local levenshtein function exercised on    *)
(* its own (prog = "levenshtein").                                         *)
(*                                                                         *)
(* Text values of the name, postcode and other fields are sequences of     *)
(* one-character strings; dob values are date strings, read through        *)
(* ParseDate.  A table row is [id, ts, vals], vals a function from the     *)
(* configured field names to values.                                       *)
(***************************************************************************)
EXTENDS Integers, Sequences, FiniteSets, TLC

VARIABLES
    prog,              \* which program runs
    pc,                \* the statement the program is at
    fields,            \* configured field list (all_fields / args.fields)
    df,                \* the input table, in arrival order
    reference_by_id,   \* example: field -> id -> reference value
    metadata,          \* field -> reference value -> variant -> info
    explosions_by_id,  \* example: id -> list of <<field, value>>
    rows,              \* example: the combination rows
    freq_df,           \* profile: rows [id, variant, frequency, field]
    ref_df,            \* profile: id -> field -> reference value
    explosions,        \* profile: id -> list of <<field, value>>
    la, lb, lc,        \* levenshtein: the three input strings
    dist               \* levenshtein: the computed distances

vars == <<prog, pc, fields, df, reference_by_id, metadata, explosions_by_id,
          rows, freq_df, ref_df, explosions, la, lb, lc, dist>>

\* ------------------------------------------------------------------ bounds

MaxRows == 3
MaxLen == 3

Alphabet == {"a", "b"}
Ids == {1, 2}
Timestamps == {1, 2}

\* ----------------------------------------------------------------- helpers

Min2(x, y) == IF x <= y THEN x ELSE y
Max2(x, y) == IF x >= y THEN x ELSE y
MinOf(S) == CHOOSE x \in S : \A y \in S : x <= y
MaxOf(S) == CHOOSE x \in S : \A y \in S : x >= y

Strings(n) == UNION {[1..k -> Alphabet] : k \in 0..n}

\* The elements of a set of integers, ascending.
RECURSIVE SortedSeq(_)
SortedSeq(S) ==
    IF S = {} THEN <<>>
    ELSE LET m == MinOf(S) IN <<m>> \o SortedSeq(S \ {m})

\* The distinct elements of a sequence, in order of first appearance
\* (pandas .unique()).
RECURSIVE Unique(_)
Unique(s) ==
    IF Len(s) = 0 THEN <<>>
    ELSE LET init == Unique(SubSeq(s, 1, Len(s) - 1))
             x == s[Len(s)]
         IN IF \E k \in 1..Len(init) : init[k] = x THEN init
            ELSE Append(init, x)

Count(s, x) == Cardinality({k \in 1..Len(s) : s[k] = x})

\* ------------------------------------------------------- string metrics

\* A plausible slip in the inner loop: a substitution costs 1 even when the
\* two characters are equal.
RECURSIVE LevInner(_, _, _, _, _)
LevInnerAlwaysSub(ca, b, prev, curr, j) ==
    IF j > Len(b) THEN curr
    ELSE LET ins == prev[j + 1] + 1
             rem == curr[j] + 1
             sub == prev[j] + 1
         IN LevInner(ca, b, prev,
                     Append(curr, Min2(ins, Min2(rem, sub))), j + 1)

\* The inner loop of levenshtein: one cell of curr per character cb of b
\* (prev and curr are 1-based here: Python's prev[j] is prev[j + 1]).
LevInner(ca, b, prev, curr, j) ==
    IF j > Len(b) THEN curr
    ELSE LET ins == prev[j + 1] + 1
             rem == curr[j] + 1
             sub == prev[j] + (IF ca # b[j] THEN 1 ELSE 0)
         IN LevInner(ca, b, prev,
                     Append(curr, Min2(ins, Min2(rem, sub))), j + 1)

\* The outer loop of levenshtein: one row per character ca of a.
RECURSIVE LevOuter(_, _, _, _)
LevOuter(a, b, prev, i) ==
    IF i > Len(a) THEN prev
    ELSE LevOuter(a, b, LevInner(a[i], b, prev, <<i>>, 1), i + 1)

\* levenshtein(a, b): the longer string becomes a, prev starts as
\* range(len(b) + 1), the result is prev[-1].  (`a or ""` only replaces a
\* None argument; the arguments here are strings.)
levenshtein(a0, b0) ==
    LET a == IF Len(a0) < Len(b0) THEN b0 ELSE a0
        b == IF Len(a0) < Len(b0) THEN a0 ELSE b0
        first == [k \in 1..(Len(b) + 1) |-> k - 1]
    IN LevOuter(a, b, first, 1)[Len(b) + 1]

\* The greedy matching loop of jaro_winkler; i and the flags are 1-based,
\* the window is Python's range(max(0, i0 - d), min(i0 + d + 1, len2)).
RECURSIVE JaroMatch(_, _, _, _, _, _)
JaroMatch(s1, s2, d, i, s1m, s2m) ==
    IF i > Len(s1) THEN [s1m |-> s1m, s2m |-> s2m]
    ELSE LET lo0 == Max2(0, (i - 1) - d)
             hi0 == Min2((i - 1) + d + 1, Len(s2))
             cand == {j \in (lo0 + 1)..hi0 : ~s2m[j] /\ s1[i] = s2[j]}
         IN IF cand = {} THEN JaroMatch(s1, s2, d, i + 1, s1m, s2m)
            ELSE JaroMatch(s1, s2, d, i + 1,
                           [s1m EXCEPT ![i] = TRUE],
                           [s2m EXCEPT ![MinOf(cand)] = TRUE])

\* The characters of s whose flag is set, in order.
Flagged(s, flags) ==
    LET F[k \in 0..Len(s)] ==
            IF k = 0 THEN <<>>
            ELSE IF flags[k] THEN Append(F[k - 1], s[k]) ELSE F[k - 1]
    IN F[Len(s)]

\* Length of the common leading run of s1 and s2.
CommonPrefix(s1, s2) ==
    LET n == Min2(Len(s1), Len(s2))
        stops == {k \in 1..n : s1[k] # s2[k]}
    IN IF stops = {} THEN n ELSE MinOf(stops) - 1

\* The Jaro part of jaro_winkler for s1 # s2: the number of matches, the
\* Jaro score as the exact fraction jn/jd, and the capped common prefix.
JaroParts(s1, s2) ==
    LET len1 == Len(s1)
        len2 == Len(s2)
        match_dist == (Max2(len1, len2) \div 2) - 1
        m0 == JaroMatch(s1, s2, match_dist, 1,
                        [k \in 1..len1 |-> FALSE], [k \in 1..len2 |-> FALSE])
        matches == Cardinality({k \in 1..len1 : m0.s1m[k]})
        s1r == Flagged(s1, m0.s1m)
        s2r == Flagged(s2, m0.s2m)
        \* twice trans: trans = (number of unequal aligned pairs) / 2
        trans2 == Cardinality({k \in 1..Min2(Len(s1r), Len(s2r)) :
                                   s1r[k] # s2r[k]})
    IN [matches |-> matches,
        jn |-> 2 * matches * matches * len2 + 2 * matches * matches * len1
               + (2 * matches - trans2) * len1 * len2,
        jd |-> 6 * matches * len1 * len2,
        prefix |-> Min2(CommonPrefix(s1, s2), 4)]

\* jaro_winkler, as the exact fraction num/den of the value the code
\* computes in floating point (p = 0.1 is 1/10): j + prefix * p * (1 - j).
jaro_winkler(s1, s2) ==
    IF s1 = s2 THEN [num |-> 1, den |-> 1]
    ELSE LET q == JaroParts(s1, s2)
         IN IF q.matches = 0 THEN [num |-> 0, den |-> 1]
            ELSE [num |-> 10 * q.jn + q.prefix * (q.jd - q.jn),
                  den |-> 10 * q.jd]

\* jaro_winkler(ref, var) < 0.88
LowSimilarity(ref, var) ==
    LET s == jaro_winkler(ref, var) IN 100 * s.num < 88 * s.den

\* mismatch_positions: 0-based positions of zip(a, b) where they differ.
mismatch_positions(a, b) ==
    {k - 1 : k \in {k \in 1..Min2(Len(a), Len(b)) : a[k] # b[k]}}

\* dateutil's parse(s, dayfirst=True).date() on the dob strings of the
\* script's table (year-first, day-first, slashed, unpadded and compact
\* spellings all parse) and on a string that is no date, where parse
\* raises: ok with the calendar date, or not ok.
ParseDate(s) ==
    CASE s = "1985-06-15" -> [ok |-> TRUE, date |-> <<1985, 6, 15>>]
      [] s = "15-06-1985" -> [ok |-> TRUE, date |-> <<1985, 6, 15>>]
      [] s = "1985/06/15" -> [ok |-> TRUE, date |-> <<1985, 6, 15>>]
      [] s = "1985-06-16" -> [ok |-> TRUE, date |-> <<1985, 6, 16>>]
      [] s = "1985-6-15" -> [ok |-> TRUE, date |-> <<1985, 6, 15>>]
      [] s = "19850615" -> [ok |-> TRUE, date |-> <<1985, 6, 15>>]
      [] s = "unknown" -> [ok |-> FALSE, date |-> <<>>]

\* date_exploded: the bare except turns a parse failure into True.
date_exploded(ref, var) ==
    LET r == ParseDate(ref)
        v == ParseDate(var)
    IN IF ~r.ok \/ ~v.ok THEN TRUE ELSE r.date # v.date

\* rapidfuzz's Levenshtein.distance: the unit-cost edit distance.
RECURSIVE LevenshteinDistance(_, _)
LevenshteinDistance(a, b) ==
    IF Len(a) = 0 THEN Len(b)
    ELSE IF Len(b) = 0 THEN Len(a)
    ELSE Min2(LevenshteinDistance(Tail(a), b) + 1,
              Min2(LevenshteinDistance(a, Tail(b)) + 1,
                   LevenshteinDistance(Tail(a), Tail(b))
                       + (IF Head(a) = Head(b) THEN 0 ELSE 1)))

\* rapidfuzz's JaroWinkler.similarity(ref, var) < 0.88: the prefix boost
\* applies to a Jaro score above 0.7 only.
JaroWinklerSimilarityLow(s1, s2) ==
    IF s1 = s2 THEN FALSE
    ELSE LET q == JaroParts(s1, s2)
         IN IF q.matches = 0 THEN TRUE
            ELSE IF 10 * q.jn > 7 * q.jd
                 THEN 100 * (10 * q.jn + q.prefix * (q.jd - q.jn))
                          < 88 * 10 * q.jd
                 ELSE 100 * q.jn < 88 * q.jd

\* ------------------------------------------------------------ the table

KeyFields == {"first_name", "last_name", "postcode"}
NameFields == {"first_name", "last_name"}

\* The values a field takes in the model.
FieldValues(f) ==
    CASE f = "first_name" -> {<<"a", "b">>, <<"a", "b", "b">>, <<"b", "a">>}
      [] f = "last_name" -> {<<"a", "b">>, <<"a", "b", "b">>}
      [] f = "dob" -> {"1985-06-15", "15-06-1985", "1985/06/15",
                      "1985-06-16", "unknown"}
      [] f = "postcode" -> {<<"a">>, <<"a", "b">>}
      [] OTHER -> {<<"a">>, <<"b">>, <<"a", "b">>}

\* Every assignment of a value to each field of the list fl.
RECURSIVE ValsOver(_)
ValsOver(fl) ==
    IF Len(fl) = 0 THEN {<<>>}
    ELSE {(Head(fl) :> v) @@ rest :
              v \in FieldValues(Head(fl)), rest \in ValsOver(Tail(fl))}

FieldSet(fl) == {fl[k] : k \in 1..Len(fl)}

IdsOf(d) == {d[k].id : k \in 1..Len(d)}

\* The rows of one id, in table order (a groupby group).
Group(d, rid) == SelectSeq(d, LAMBDA r : r.id = rid)

\* One column of a table.
Column(g, fld) == [k \in 1..Len(g) |-> g[k].vals[fld]]

\* The cells of a column that differ from ref, in order.
NotRef(col, ref) == SelectSeq(col, LAMBDA x : x # ref)

\* dict assignment m[k] = v.
Put(m, k, v) == [x \in (DOMAIN m) \cup {k} |-> IF x = k THEN v ELSE m[x]]

\* ------------------------------------- example_explode_analysis.py (script)

\* reference_by_id: per field, per id, the last cell of the id's group.
BuildReferenceById(d, fl) ==
    [f \in FieldSet(fl) |->
        [rid \in IdsOf(d) |->
            LET col == Column(Group(d, rid), f) IN col[Len(col)]]]

\* The info dict of one variant (the script's metrics).
InfoExample(fld, ref, var, count) ==
    IF fld \in NameFields THEN
        [frequency |-> count,
         edit_distance |-> levenshtein(ref, var),
         low_similarity |-> LowSimilarity(ref, var),
         mismatch_first4 |-> \E q \in mismatch_positions(ref, var) : q < 4]
    ELSE IF fld = "dob" THEN
        [frequency |-> count, exploded |-> date_exploded(ref, var)]
    ELSE IF fld = "postcode" THEN
        [frequency |-> count, edit_distance |-> levenshtein(ref, var)]
    ELSE [frequency |-> count]

\* var_meta of one id: Counter over the id's cells that differ from ref.
VarMetaExample(d, fld, rid, ref) ==
    LET variants == NotRef(Column(Group(d, rid), fld), ref)
    IN [v \in {variants[k] : k \in 1..Len(variants)} |->
            InfoExample(fld, ref, v, Count(variants, v))]

RECURSIVE MetadataForField(_, _, _, _, _)
\* The loop over mapping.items(): metadata[fld][ref_val] is assigned once
\* per id, in ascending id order.
MetadataForField(d, refs, fld, ids, acc) ==
    IF Len(ids) = 0 THEN acc
    ELSE LET rid == Head(ids)
             ref == refs[fld][rid]
         IN MetadataForField(d, refs, fld, Tail(ids),
                Put(acc, ref,
                    [variants |-> VarMetaExample(d, fld, rid, ref)]))

BuildMetadataExample(d, refs, fl) ==
    [f \in FieldSet(fl) |->
        MetadataForField(d, refs, f, SortedSeq(IdsOf(d)), <<>>)]

\* The script's explosion predicate for one variant.
ExplodeExample(fld, ref, var) ==
    IF fld \in NameFields THEN LowSimilarity(ref, var)
    ELSE IF fld = "dob" THEN date_exploded(ref, var)
    ELSE IF fld = "postcode" THEN levenshtein(ref, var) > 0
    ELSE TRUE

\* A variation of the fallback: applied to every field, not only key fields.
FieldExplosionsFallbackAll(d, refs, rid, fld) ==
    LET ref == refs[fld][rid]
        variants == Unique(NotRef(Column(Group(d, rid), fld), ref))
        exploded == SelectSeq(variants, LAMBDA v : ExplodeExample(fld, ref, v))
        pairs == [k \in 1..Len(exploded) |-> <<fld, exploded[k]>>]
    IN IF Len(exploded) = 0 THEN Append(pairs, <<fld, ref>>) ELSE pairs

\* The entries one (id, field) appends to explosions_by_id[rid]: the
\* exploded variants in order of first appearance, or the fallback.
FieldExplosions(d, refs, rid, fld) ==
    LET ref == refs[fld][rid]
        variants == Unique(NotRef(Column(Group(d, rid), fld), ref))
        exploded == SelectSeq(variants, LAMBDA v : ExplodeExample(fld, ref, v))
        pairs == [k \in 1..Len(exploded) |-> <<fld, exploded[k]>>]
    IN IF fld \in KeyFields /\ Len(exploded) = 0
       THEN Append(pairs, <<fld, ref>>)
       ELSE pairs

RECURSIVE IdExplosions(_, _, _, _)
IdExplosions(d, refs, rid, fl) ==
    IF Len(fl) = 0 THEN <<>>
    ELSE FieldExplosions(d, refs, rid, Head(fl))
         \o IdExplosions(d, refs, rid, Tail(fl))

\* explosions_by_id is a defaultdict: an id has a key once something was
\* appended for it.
IdentifyExplosions(d, refs, fl) ==
    LET all == [rid \in IdsOf(d) |-> IdExplosions(d, refs, rid, fl)]
    IN [rid \in {r \in IdsOf(d) : Len(all[r]) > 0} |-> all[rid]]

\* The variants of one (id, field) in an explosion list, in order.
VariantsOf(pairs, fld) ==
    LET mine == SelectSeq(pairs, LAMBDA pr : pr[1] = fld)
    IN [k \in 1..Len(mine) |-> mine[k][2]]

\* df_long: one row per entry of explosions_by_id.
DfLong(expl) ==
    LET F[n \in 0..Cardinality(DOMAIN expl)] ==
            IF n = 0 THEN <<>>
            ELSE LET rid == SortedSeq(DOMAIN expl)[n]
                 IN F[n - 1] \o [k \in 1..Len(expl[rid]) |->
                        [id |-> rid, field |-> expl[rid][k][1],
                         variant |-> expl[rid][k][2]]]
    IN F[Cardinality(DOMAIN expl)]

\* grouped: per id of df_long, per field of df_long, the unique variants in
\* order of appearance; a missing (id, field) cell holds the fill value [].
Grouped(long) ==
    LET ids == {long[k].id : k \in 1..Len(long)}
        cols == {long[k].field : k \in 1..Len(long)}
    IN [rid \in ids |-> [f \in cols |->
            LET cell == SelectSeq(long, LAMBDA r : r.id = rid /\ r.field = f)
            IN Unique([k \in 1..Len(cell) |-> cell[k].variant])]]

\* A variation without the fallback to the reference: an empty exploded
\* list stays empty.
VariantListsNoReference(row, refs, rid, fl) ==
    [k \in 1..Len(fl) |->
        IF fl[k] \in DOMAIN row THEN row[fl[k]] ELSE <<>>]

\* A variation that keeps the reference among the values of every field.
VariantListsWithReference(row, refs, rid, fl) ==
    [k \in 1..Len(fl) |->
        LET exploded == IF fl[k] \in DOMAIN row THEN row[fl[k]] ELSE <<>>
        IN IF \E n \in 1..Len(exploded) : exploded[n] = refs[fl[k]][rid]
           THEN exploded
           ELSE <<refs[fl[k]][rid]>> \o exploded]

\* variant_lists of one grouped row: the exploded list of each field of
\* all_fields, or [reference] when it is empty.
VariantLists(row, refs, rid, fl) ==
    [k \in 1..Len(fl) |->
        LET exploded == IF fl[k] \in DOMAIN row THEN row[fl[k]] ELSE <<>>
        IN IF Len(exploded) > 0 THEN exploded ELSE <<refs[fl[k]][rid]>>]

\* itertools.product(*lists): the last list varies fastest.
RECURSIVE Product(_)
Product(lists) ==
    IF Len(lists) = 0 THEN << <<>> >>
    ELSE LET rest == Product(Tail(lists))
             h == Head(lists)
             F[n \in 0..Len(h)] ==
                 IF n = 0 THEN <<>>
                 ELSE F[n - 1] \o [j \in 1..Len(rest) |-> <<h[n]>> \o rest[j]]
         IN F[Len(h)]

\* The rows of one id: dict(zip(all_fields, combo)) for each combo.
IdRows(row, refs, rid, fl) ==
    LET combos == Product(VariantLists(row, refs, rid, fl))
    IN [n \in 1..Len(combos) |->
            [id |-> rid,
             vals |-> [f \in FieldSet(fl) |->
                          combos[n][CHOOSE k \in 1..Len(fl) : fl[k] = f]]]]

\* rows: the rows of every id of grouped, in ascending id order.
GenerateCombinations(expl, refs, fl) ==
    LET grouped == Grouped(DfLong(expl))
        ids == SortedSeq(DOMAIN grouped)
        F[n \in 0..Len(ids)] ==
            IF n = 0 THEN <<>>
            ELSE F[n - 1] \o IdRows(grouped[ids[n]], refs, ids[n], fl)
    IN F[Len(ids)]

\* ------------------------------------------------- profile_exploded.py

\* compute_frequencies: per field, one row per (id, value) in order of first
\* appearance (groupby sort=False) with the size of the group; the pieces
\* are concatenated in field order.
FrequencyPiece(d, fld) ==
    LET cells == [k \in 1..Len(d) |-> <<d[k].id, d[k].vals[fld]>>]
        keys == Unique(cells)
    IN [n \in 1..Len(keys) |->
            [id |-> keys[n][1], variant |-> keys[n][2],
             frequency |-> Count(cells, keys[n]), field |-> fld]]

RECURSIVE compute_frequencies(_, _)
compute_frequencies(d, fl) ==
    IF Len(fl) = 0 THEN <<>>
    ELSE FrequencyPiece(d, Head(fl)) \o compute_frequencies(d, Tail(fl))

\* The orders sort_values(ts_col) may leave the rows in.  The default sort
\* kind is quicksort, which is not stable: rows with equal timestamps come
\* out in any order.
SortOutcomes(d) ==
    {p \in [1..Len(d) -> 1..Len(d)] :
        /\ \A i, j \in 1..Len(d) : i # j => p[i] # p[j]
        /\ \A i, j \in 1..Len(d) : i < j => d[p[i]].ts <= d[p[j]].ts}

\* get_references for one outcome p of the sort: per id, the values of the
\* last row of its group.
get_references(d, p, fl) ==
    LET sorted == [k \in 1..Len(d) |-> d[p[k]]]
    IN [rid \in IdsOf(d) |->
            LET g == Group(sorted, rid) IN g[Len(g)].vals]

\* The info dict of one variant in build_metadata.
InfoProfile(fld, ref, var, count) ==
    IF fld \in NameFields THEN
        [frequency |-> count,
         edit_distance |-> LevenshteinDistance(ref, var),
         low_similarity |-> JaroWinklerSimilarityLow(ref, var),
         mismatch_first4 |-> \E q \in mismatch_positions(ref, var) : q < 4]
    ELSE IF fld = "dob" THEN
        [frequency |-> count, exploded |-> date_exploded(ref, var)]
    ELSE IF fld = "postcode" THEN
        [frequency |-> count, edit_distance |-> LevenshteinDistance(ref, var)]
    ELSE [frequency |-> count]

\* freq_df's rows of one field merged with the id's reference of the field.
Merged(freq, ref, fld) ==
    LET f == SelectSeq(freq, LAMBDA r : r.field = fld)
    IN [k \in 1..Len(f) |->
            [id |-> f[k].id, variant |-> f[k].variant,
             frequency |-> f[k].frequency, field |-> fld,
             reference |-> ref[f[k].id][fld]]]

\* build_metadata: per field, per reference value (a groupby over all ids),
\* a Counter over the variant column of the merged rows whose variant
\* differs from the reference.
build_metadata(freq, ref, fl) ==
    [fld \in FieldSet(fl) |->
        LET merged == Merged(freq, ref, fld)
            refvals == {merged[k].reference : k \in 1..Len(merged)}
        IN [ref_val \in refvals |->
              LET group == SelectSeq(merged, LAMBDA r : r.reference = ref_val)
                  subs == SelectSeq(group, LAMBDA r : r.variant # ref_val)
                  column == [k \in 1..Len(subs) |-> subs[k].variant]
              IN [variants |->
                    [v \in {column[k] : k \in 1..Len(column)} |->
                        InfoProfile(fld, ref_val, v, Count(column, v))]]]]

should_explode(row) ==
    IF row.variant = row.reference THEN FALSE
    ELSE IF row.field \in NameFields
         THEN JaroWinklerSimilarityLow(row.reference, row.variant)
    ELSE IF row.field = "dob" THEN date_exploded(row.reference, row.variant)
    ELSE IF row.field = "postcode"
         THEN LevenshteinDistance(row.reference, row.variant) > 0
    ELSE TRUE

\* The merged table of find_explosions, in freq_df's order.
RECURSIVE MergedAll(_, _, _)
MergedAll(freq, ref, fl) ==
    IF Len(fl) = 0 THEN <<>>
    ELSE Merged(freq, ref, Head(fl)) \o MergedAll(freq, ref, Tail(fl))

\* find_explosions.  The test of the fallback, `not <frame>.any()`, takes
\* the truth value of a Series (any() of a frame is one boolean per column),
\* which pandas refuses with a ValueError: the function raises at the first
\* key field of the first id.
find_explosions(freq, ref, fl) ==
    LET merged == MergedAll(freq, ref, fl)
        ids == {merged[k].id : k \in 1..Len(merged)}
        pairs(rid) ==
            LET exploded == SelectSeq(merged,
                                LAMBDA r : r.id = rid /\ should_explode(r))
            IN [k \in 1..Len(exploded) |->
                    <<exploded[k].field, exploded[k].variant>>]
    IN IF ids # {} /\ \E k \in 1..Len(fl) : fl[k] \in KeyFields
       THEN [raised |-> TRUE, value |-> <<>>]
       ELSE [raised |-> FALSE, value |-> [rid \in ids |-> pairs(rid)]]

\* ------------------------------------------------------------- the states

Unset == <<>>

\* The field lists the script is run with: each a sub-list, in column
\* order, of the script's columns, and holding a key field.
FieldListsExample ==
    {<<"first_name", "sex">>, <<"dob", "postcode">>, <<"last_name", "postcode">>}

\* The tables of at most MaxRows rows over a field list; ts only matters to
\* profile_exploded.py.
Tables(fl, stamps) ==
    UNION {[1..n -> {[id |-> i, ts |-> t, vals |-> v] :
                        i \in Ids, t \in stamps, v \in ValsOver(fl)}] :
           n \in 1..MaxRows}

InitExample ==
    /\ prog = "example"
    /\ pc = "references"
    /\ fields \in FieldListsExample
    /\ df \in Tables(fields, {0})
    /\ reference_by_id = Unset /\ metadata = Unset
    /\ explosions_by_id = Unset /\ rows = Unset
    /\ freq_df = Unset /\ ref_df = Unset /\ explosions = Unset
    /\ la = Unset /\ lb = Unset /\ lc = Unset /\ dist = Unset

InitLevenshtein ==
    /\ prog = "levenshtein"
    /\ pc = "call"
    /\ la \in Strings(MaxLen) /\ lb \in Strings(MaxLen) /\ lc \in Strings(MaxLen)
    /\ dist = Unset
    /\ fields = Unset /\ df = Unset
    /\ reference_by_id = Unset /\ metadata = Unset
    /\ explosions_by_id = Unset /\ rows = Unset
    /\ freq_df = Unset /\ ref_df = Unset /\ explosions = Unset

\* The field lists profile_exploded.py is run with (--fields).
FieldListsProfile ==
    {<<"first_name">>, <<"dob">>, <<"sex">>, <<"sex", "postcode">>}

InitProfile ==
    /\ prog = "profile"
    /\ pc = "frequencies"
    /\ fields \in FieldListsProfile
    /\ df \in Tables(fields, Timestamps)
    /\ reference_by_id = Unset /\ metadata = Unset
    /\ explosions_by_id = Unset /\ rows = Unset
    /\ freq_df = Unset /\ ref_df = Unset /\ explosions = Unset
    /\ la = Unset /\ lb = Unset /\ lc = Unset /\ dist = Unset


\* ------------------------------------------------------------ the actions

\* example_explode_analysis.py, step 1: reference_by_id.
ExampleReferences ==
    /\ prog = "example" /\ pc = "references"
    /\ reference_by_id' = BuildReferenceById(df, fields)
    /\ pc' = "metadata"
    /\ UNCHANGED <<prog, fields, df, metadata, explosions_by_id, rows,
                   freq_df, ref_df, explosions, la, lb, lc, dist>>

\* example_explode_analysis.py, step 2: metadata.
ExampleMetadata ==
    /\ prog = "example" /\ pc = "metadata"
    /\ metadata' = BuildMetadataExample(df, reference_by_id, fields)
    /\ pc' = "explosions"
    /\ UNCHANGED <<prog, fields, df, reference_by_id, explosions_by_id, rows,
                   freq_df, ref_df, explosions, la, lb, lc, dist>>

\* example_explode_analysis.py: explosions_by_id.
ExampleExplosions ==
    /\ prog = "example" /\ pc = "explosions"
    /\ explosions_by_id' = IdentifyExplosions(df, reference_by_id, fields)
    /\ pc' = "combinations"
    /\ UNCHANGED <<prog, fields, df, reference_by_id, metadata, rows,
                   freq_df, ref_df, explosions, la, lb, lc, dist>>

\* example_explode_analysis.py: the exploded combinations.
ExampleCombinations ==
    /\ prog = "example" /\ pc = "combinations"
    /\ rows' = GenerateCombinations(explosions_by_id, reference_by_id, fields)
    /\ pc' = "done"
    /\ UNCHANGED <<prog, fields, df, reference_by_id, metadata,
                   explosions_by_id, freq_df, ref_df, explosions,
                   la, lb, lc, dist>>

\* profile_exploded.py main: freq_df.
ProfileFrequencies ==
    /\ prog = "profile" /\ pc = "frequencies"
    /\ freq_df' = compute_frequencies(df, fields)
    /\ pc' = "references"
    /\ UNCHANGED <<prog, fields, df, reference_by_id, metadata,
                   explosions_by_id, rows, ref_df, explosions,
                   la, lb, lc, dist>>

\* profile_exploded.py main: ref_df, for some outcome of the sort.
ProfileReferences ==
    /\ prog = "profile" /\ pc = "references"
    /\ \E p \in SortOutcomes(df) : ref_df' = get_references(df, p, fields)
    /\ pc' = "metadata"
    /\ UNCHANGED <<prog, fields, df, reference_by_id, metadata,
                   explosions_by_id, rows, freq_df, explosions,
                   la, lb, lc, dist>>

\* profile_exploded.py main: metadata.
ProfileMetadata ==
    /\ prog = "profile" /\ pc = "metadata"
    /\ metadata' = build_metadata(freq_df, ref_df, fields)
    /\ pc' = "explosions"
    /\ UNCHANGED <<prog, fields, df, reference_by_id, explosions_by_id,
                   rows, freq_df, ref_df, explosions, la, lb, lc, dist>>

\* profile_exploded.py main: explosions, or the ValueError that ends the
\* run.
ProfileExplosions ==
    /\ prog = "profile" /\ pc = "explosions"
    /\ LET r == find_explosions(freq_df, ref_df, fields)
       IN IF r.raised
          THEN pc' = "error" /\ UNCHANGED explosions
          ELSE pc' = "done" /\ explosions' = r.value
    /\ UNCHANGED <<prog, fields, df, reference_by_id, metadata,
                   explosions_by_id, rows, freq_df, ref_df,
                   la, lb, lc, dist>>

\* The calls of levenshtein on the pairs of three strings.
CallLevenshtein ==
    /\ prog = "levenshtein" /\ pc = "call"
    /\ dist' = [ab |-> levenshtein(la, lb), ba |-> levenshtein(lb, la),
                bc |-> levenshtein(lb, lc), ac |-> levenshtein(la, lc)]
    /\ pc' = "done"
    /\ UNCHANGED <<prog, fields, df, reference_by_id, metadata,
                   explosions_by_id, rows, freq_df, ref_df, explosions,
                   la, lb, lc>>

NextExample ==
    \/ ExampleReferences
    \/ ExampleMetadata
    \/ ExampleExplosions
    \/ ExampleCombinations

NextProfile ==
    \/ ProfileFrequencies
    \/ ProfileReferences
    \/ ProfileMetadata
    \/ ProfileExplosions

NextLevenshtein == CallLevenshtein

\* One run of example_explode_analysis.py on some table.
SpecExample == InitExample /\ [][NextExample]_vars

\* One run of profile_exploded.py on some table.
SpecProfile == InitProfile /\ [][NextProfile]_vars

\* levenshtein on some three strings.
SpecLevenshtein == InitLevenshtein /\ [][NextLevenshtein]_vars

\* ------------------------------------------------------------ the claims

\* The statements below read the outputs of a run.
ExampleHasReferences ==
    prog = "example" /\ pc \in {"metadata", "explosions", "combinations", "done"}
ExampleHasMetadata ==
    prog = "example" /\ pc \in {"explosions", "combinations", "done"}
ExampleClassified == prog = "example" /\ pc \in {"combinations", "done"}
ExampleDone == prog = "example" /\ pc = "done"
ProfileHasReferences ==
    prog = "profile" /\ pc \in {"metadata", "explosions", "done", "error"}
ProfileHasMetadata == prog = "profile" /\ pc \in {"explosions", "done", "error"}
\* find_explosions was called: it returned (done) or raised (error).
ProfileClassified == prog = "profile" /\ pc \in {"done", "error"}

\* The explosion list a run holds for an id: all its <<field, value>> pairs.
ExampleList(rid) ==
    IF rid \in DOMAIN explosions_by_id THEN explosions_by_id[rid] ELSE <<>>
ProfileList(rid) ==
    IF rid \in DOMAIN explosions THEN explosions[rid] ELSE <<>>

SeqRange(q) == {q[k] : k \in 1..Len(q)}

\* The values observed for (id, field) that differ from ref.
ObservedVariants(rid, fld, ref) ==
    SeqRange(NotRef(Column(Group(df, rid), fld), ref))

\* The variants of (id, field) the program's predicate classifies as
\* explosions.
ExampleExploded(rid, fld) ==
    {v \in ObservedVariants(rid, fld, reference_by_id[fld][rid]) :
        ExplodeExample(fld, reference_by_id[fld][rid], v)}
ProfileExploded(rid, fld) ==
    {v \in ObservedVariants(rid, fld, ref_df[rid][fld]) :
        should_explode([field |-> fld, reference |-> ref_df[rid][fld],
                        variant |-> v])}

\* C1: after explosion classification with the fallback rule, every id of
\* the table has, for every configured key field, at least one entry of that
\* field in its explosion list.
C1_KeyFieldListNonEmpty ==
    /\ ExampleClassified =>
         \A rid \in IdsOf(df) : \A f \in FieldSet(fields) \cap KeyFields :
            Len(VariantsOf(ExampleList(rid), f)) >= 1
    /\ ProfileClassified =>
         \A rid \in IdsOf(df) : \A f \in FieldSet(fields) \cap KeyFields :
            Len(VariantsOf(ProfileList(rid), f)) >= 1

\* The part of C1 that is about the script alone.
C1_ExampleKeyFieldListNonEmpty ==
    ExampleClassified =>
        \A rid \in IdsOf(df) : \A f \in FieldSet(fields) \cap KeyFields :
            Len(VariantsOf(ExampleList(rid), f)) >= 1

\* C2 as stated: for every id and field, the reference value is never an
\* entry of that field's explosion list for that id.
C2_NoSelfExplosion ==
    /\ ExampleClassified =>
         \A rid \in IdsOf(df) : \A f \in FieldSet(fields) :
            reference_by_id[f][rid] \notin SeqRange(VariantsOf(ExampleList(rid), f))
    /\ ProfileClassified =>
         \A rid \in IdsOf(df) : \A f \in FieldSet(fields) :
            ref_df[rid][f] \notin SeqRange(VariantsOf(ProfileList(rid), f))

\* C2 amended: the reference value is an entry of a field's explosion list
\* only as the fallback entry, that is only for a key field none of whose
\* variants was classified as an explosion, and it is then the list's only
\* entry; the reference value is never in the list of a non-key field.
C2_ReferenceOnlyAsFallback ==
    ExampleClassified =>
        \A rid \in IdsOf(df) : \A f \in FieldSet(fields) :
            LET ref == reference_by_id[f][rid]
                list == VariantsOf(ExampleList(rid), f)
            IN ref \in SeqRange(list) =>
                  /\ f \in KeyFields
                  /\ ExampleExploded(rid, f) = {}
                  /\ list = <<ref>>

\* C2 witness: a classified table where a key field of an id holds the
\* fallback entry although the id has a variant of it, and some list holds a
\* classified variant.
C2_Witness ==
    /\ ExampleClassified
    /\ \E f \in FieldSet(fields) \cap KeyFields : \E r1 \in IdsOf(df) :
          /\ VariantsOf(ExampleList(r1), f) = <<reference_by_id[f][r1]>>
          /\ ObservedVariants(r1, f, reference_by_id[f][r1]) # {}
    /\ \E g \in FieldSet(fields) : \E r2 \in IdsOf(df) :
          /\ Len(VariantsOf(ExampleList(r2), g)) >= 1
          /\ reference_by_id[g][r2] \notin SeqRange(VariantsOf(ExampleList(r2), g))

\* The variant list the combination generator is to use for (id, field):
\* the explosion list if non-empty, else the reference alone.
ClaimedVariantList(rid, f) ==
    LET list == VariantsOf(ExampleList(rid), f)
    IN IF Len(list) > 0 THEN list ELSE <<reference_by_id[f][rid]>>

RECURSIVE SizeProduct(_, _)
SizeProduct(rid, fl) ==
    IF Len(fl) = 0 THEN 1
    ELSE Len(ClaimedVariantList(rid, Head(fl))) * SizeProduct(rid, Tail(fl))

RowsOf(rid) == SelectSeq(rows, LAMBDA r : r.id = rid)

\* C3: for every id of the table, the number of combination rows equals the
\* product over the configured fields of the size of the field's variant
\* list (the explosion list if non-empty, else the reference alone), and is
\* at least 1.
C3_RowCountIsProduct ==
    ExampleDone =>
        \A rid \in IdsOf(df) :
            /\ Len(RowsOf(rid)) = SizeProduct(rid, fields)
            /\ Len(RowsOf(rid)) >= 1

\* C3 witness: a finished run where one id has two fields with two
\* explosions each (four rows) and another id has a single row.
C3_Witness ==
    /\ ExampleDone
    /\ \E r1 \in IdsOf(df) :
          /\ Len(RowsOf(r1)) = 4
          /\ \A k \in 1..Len(fields) : Len(ClaimedVariantList(r1, fields[k])) = 2

\* The last row of an id's group in arrival order.
LastInRowOrder(rid) ==
    LET g == Group(df, rid) IN g[Len(g)]

\* The row of an id with the greatest timestamp, the latest arrival among
\* rows with that timestamp.
LastByTimestamp(rid) ==
    LET at == {k \in 1..Len(df) : df[k].id = rid}
        top == MaxOf({df[k].ts : k \in at})
    IN df[MaxOf({k \in at : df[k].ts = top})]

\* C4: the reference value of (id, field) is the field value of the last
\* row of the id's group: last in row order (the script), last by ascending
\* timestamp with the latest arrival among equal timestamps (the pipeline).
C4_ReferenceIsLastStable ==
    /\ ExampleHasReferences =>
         \A rid \in IdsOf(df) : \A f \in FieldSet(fields) :
            reference_by_id[f][rid] = LastInRowOrder(rid).vals[f]
    /\ ProfileHasReferences =>
         \A rid \in IdsOf(df) : \A f \in FieldSet(fields) :
            ref_df[rid][f] = LastByTimestamp(rid).vals[f]

\* The part of C4 that is about the script alone.
C4_ExampleReferenceIsLastRow ==
    ExampleHasReferences =>
        \A rid \in IdsOf(df) : \A f \in FieldSet(fields) :
            reference_by_id[f][rid] = LastInRowOrder(rid).vals[f]

\* The reference of (id, field) in the running program.
RefOf(rid, f) ==
    IF prog = "example" THEN reference_by_id[f][rid] ELSE ref_df[rid][f]

\* The ids whose reference of a field is r.
IdsWithReference(f, r) == {rid \in IdsOf(df) : RefOf(rid, f) = r}

\* C5: the metadata entry of (field, reference value) lists as variants every
\* value different from the reference observed for the field in any id whose
\* reference is that value.
C5_MetadataListsAllVariants ==
    (ExampleHasMetadata \/ ProfileHasMetadata) =>
        \A f \in FieldSet(fields) : \A rid \in IdsOf(df) :
            LET r == RefOf(rid, f)
            IN /\ r \in DOMAIN metadata[f]
               /\ DOMAIN metadata[f][r].variants =
                     UNION {ObservedVariants(x, f, r) : x \in IdsWithReference(f, r)}

\* The part of C5 that is about profile_exploded.py alone.
C5_ProfileMetadataListsAllVariants ==
    ProfileHasMetadata =>
        \A f \in FieldSet(fields) : \A rid \in IdsOf(df) :
            LET r == RefOf(rid, f)
            IN /\ r \in DOMAIN metadata[f]
               /\ DOMAIN metadata[f][r].variants =
                     UNION {ObservedVariants(x, f, r) : x \in IdsWithReference(f, r)}

\* The number of rows of the table whose id has reference r for the field
\* and whose value of the field is v.
Occurrences(f, r, v) ==
    Cardinality({k \in 1..Len(df) :
                    df[k].id \in IdsWithReference(f, r) /\ df[k].vals[f] = v})

\* C6: the frequency the metadata reports for a variant under (field,
\* reference value) is the number of rows in which the variant was observed
\* for the field among the ids whose reference is that value.
C6_FrequencyCountsOccurrences ==
    (ExampleHasMetadata \/ ProfileHasMetadata) =>
        \A f \in FieldSet(fields) : \A r \in DOMAIN metadata[f] :
            \A v \in DOMAIN metadata[f][r].variants :
                metadata[f][r].variants[v].frequency = Occurrences(f, r, v)

\* What the metadata holds of an id's variants under the id's reference.
Contribution(meta, f, r, mine) ==
    [v \in mine \cap DOMAIN meta[f][r].variants |-> meta[f][r].variants[v]]

\* C7: what the script obtains for an id (reference values, explosion list,
\* metadata contribution) is what it obtains from the rows of that id alone.
C7_IndependentOfOtherIds ==
    ExampleClassified =>
        \A rid \in IdsOf(df) :
            LET alone == Group(df, rid)
                refs == BuildReferenceById(alone, fields)
                meta == BuildMetadataExample(alone, refs, fields)
                expl == IdentifyExplosions(alone, refs, fields)
            IN /\ \A f \in FieldSet(fields) :
                     refs[f][rid] = reference_by_id[f][rid]
               /\ (IF rid \in DOMAIN expl THEN expl[rid] ELSE <<>>)
                     = ExampleList(rid)
               /\ \A f \in FieldSet(fields) :
                     LET r == refs[f][rid]
                         mine == ObservedVariants(rid, f, r)
                     IN Contribution(meta, f, r, mine)
                            = Contribution(metadata, f, r, mine)

\* The parts of C7 about reference values and explosion lists alone.
C7_ReferencesAndExplosionsIndependent ==
    ExampleClassified =>
        \A rid \in IdsOf(df) :
            LET alone == Group(df, rid)
                refs == BuildReferenceById(alone, fields)
                expl == IdentifyExplosions(alone, refs, fields)
            IN /\ \A f \in FieldSet(fields) :
                     refs[f][rid] = reference_by_id[f][rid]
               /\ (IF rid \in DOMAIN expl THEN expl[rid] ELSE <<>>)
                     = ExampleList(rid)

\* The unit-cost insert/delete/substitute edit distance of the first m
\* characters of a and the first n of b.
RECURSIVE StandardEditDistance(_, _, _, _)
StandardEditDistance(a, b, m, n) ==
    IF m = 0 THEN n
    ELSE IF n = 0 THEN m
    ELSE Min2(StandardEditDistance(a, b, m - 1, n) + 1,
              Min2(StandardEditDistance(a, b, m, n - 1) + 1,
                   StandardEditDistance(a, b, m - 1, n - 1)
                       + (IF a[m] = b[n] THEN 0 ELSE 1)))

\* C8: levenshtein is symmetric, zero exactly on equal strings, satisfies
\* the triangle inequality, and equals the unit-cost edit distance.
C8_LevenshteinIsEditDistance ==
    (prog = "levenshtein" /\ pc = "done") =>
        /\ dist.ab = dist.ba
        /\ (dist.ab = 0) <=> (la = lb)
        /\ dist.ac <= dist.ab + dist.bc
        /\ dist.ab = StandardEditDistance(la, lb, Len(la), Len(lb))

\* C8 witness: three different strings, the first shorter than the second
\* (the function swaps them), whose distances were computed, the triangle
\* inequality being tight.
C8_Witness ==
    /\ prog = "levenshtein" /\ pc = "done"
    /\ Len(la) < Len(lb) /\ la # lb /\ lb # lc /\ la # lc
    /\ dist.ab >= 2 /\ dist.bc >= 1
    /\ dist.ac = dist.ab + dist.bc

\* C9: the fallback entry (field, reference) is in an id's explosion list
\* exactly when the field is a key field and no variant of the id and field
\* was classified as an explosion; a non-key field whose values all equal
\* the reference has an empty list.
C9_FallbackExactlyForKeyFields ==
    /\ ExampleClassified =>
         \A rid \in IdsOf(df) : \A f \in FieldSet(fields) :
            LET ref == reference_by_id[f][rid]
                list == VariantsOf(ExampleList(rid), f)
            IN /\ (ref \in SeqRange(list))
                     <=> (f \in KeyFields /\ ExampleExploded(rid, f) = {})
               /\ (f \notin KeyFields /\ ObservedVariants(rid, f, ref) = {})
                     => Len(list) = 0
    /\ ProfileClassified =>
         \A rid \in IdsOf(df) : \A f \in FieldSet(fields) :
            LET ref == ref_df[rid][f]
                list == VariantsOf(ProfileList(rid), f)
            IN /\ (ref \in SeqRange(list))
                     <=> (f \in KeyFields /\ ProfileExploded(rid, f) = {})
               /\ (f \notin KeyFields /\ ObservedVariants(rid, f, ref) = {})
                     => Len(list) = 0

\* The part of C9 that is about the script alone.
C9_ExampleFallbackExactlyForKeyFields ==
    ExampleClassified =>
        \A rid \in IdsOf(df) : \A f \in FieldSet(fields) :
            LET ref == reference_by_id[f][rid]
                list == VariantsOf(ExampleList(rid), f)
            IN /\ (ref \in SeqRange(list))
                     <=> (f \in KeyFields /\ ExampleExploded(rid, f) = {})
               /\ (f \notin KeyFields /\ ObservedVariants(rid, f, ref) = {})
                     => Len(list) = 0

\* A field of an id has a genuine explosion: an entry different from the
\* reference.
GenuineExplosion(rid, f) ==
    \E v \in SeqRange(VariantsOf(ExampleList(rid), f)) :
        v # reference_by_id[f][rid]

\* The all-reference record of an id.
ReferenceRecord(rid) == [f \in FieldSet(fields) |-> reference_by_id[f][rid]]

\* C10: no combination row of an id carries the reference value in a field
\* that has a genuine explosion for the id, and the id's all-reference record
\* is among its rows exactly when none of its fields has one.
C10_NoReferenceWhereExploded ==
    ExampleDone =>
        \A rid \in IdsOf(df) :
            /\ \A f \in FieldSet(fields) :
                  GenuineExplosion(rid, f) =>
                      \A k \in 1..Len(RowsOf(rid)) :
                          RowsOf(rid)[k].vals[f] # reference_by_id[f][rid]
            /\ (\E k \in 1..Len(RowsOf(rid)) :
                    RowsOf(rid)[k].vals = ReferenceRecord(rid))
                  <=> (\A f \in FieldSet(fields) : ~GenuineExplosion(rid, f))

\* C10 witness: a finished run where one id has a genuine explosion in one
\* field and none in another, and another id has no genuine explosion at all
\* and so its all-reference record as its only row.
C10_Witness ==
    /\ ExampleDone
    /\ \E r1, r2 \in IdsOf(df) :
          /\ \E f, g \in FieldSet(fields) :
                GenuineExplosion(r1, f) /\ ~GenuineExplosion(r1, g)
          /\ \A f \in FieldSet(fields) : ~GenuineExplosion(r2, f)
          /\ RowsOf(r2) = <<[id |-> r2, vals |-> ReferenceRecord(r2)]>>

====
